---------------------------- MODULE Spec2Model ----------------------------
(***************************************************************************)
(* A model of the audio path of the Vietnamese speech-to-text demo:        *)
(*   audio_preprocessor.py   AudioPreprocessor (validate, load, resample,  *)
(*                           normalize, preprocess_audio[_from_array])     *)
(*   streamlit_app_minimal.py  transcribe_long_audio, transcribe_video     *)
(*   streamlit_app.py          transcribe_audio                            *)
(*   text_postprocessor.py     TextPostprocessor.postprocess               *)
(*                                                                         *)
(* Four specifications share the variables:                                *)
(*   Spec       one call of an application entry point, step by step       *)
(*   SpecAudio  a client calling the AudioPreprocessor array methods       *)
(*              repeatedly on one preprocessor object and one array        *)
(*   SpecChat   the chat app of streamlit_app.py, one script run at a time *)
(*   SpecText   one call of a TextPostprocessor method, and one more call  *)
(*              of it on its own result                                    *)
(*                                                                         *)
(* Numbers.  A sample is a finite real on a fixed-point grid: the integer  *)
(* s stands for the amplitude s / One.  Text is a sequence of one-         *)
(* character strings, so that strip, join and the regular expressions are  *)
(* computed and not assumed.                                               *)
(***************************************************************************)
EXTENDS Integers, Sequences, FiniteSets, TLC

\* ------------------------------------------------------------------------
\* Bounds of the model
\* ------------------------------------------------------------------------

\* Longest array a client of SpecAudio passes in.
MaxLen == 2

\* Largest amplitude of an input sample, in grid units (above One: inputs
\* may lie outside [-1.0, 1.0]).
MaxAmp == 6

\* ------------------------------------------------------------------------
\* Arithmetic helpers
\* ------------------------------------------------------------------------

Min(x, y) == IF x <= y THEN x ELSE y

Max(x, y) == IF x >= y THEN x ELSE y

Sgn(x) == IF x < 0 THEN -1 ELSE IF x > 0 THEN 1 ELSE 0

CeilDiv(x, y) == (x + y - 1) \div y

\* The largest r in lo..hi with r * r <= x  (lo * lo <= x is given).
RECURSIVE SqrtSearch(_, _, _)
SqrtSearch(x, lo, hi) ==
    IF lo >= hi THEN lo
    ELSE LET mid == (lo + hi + 1) \div 2
         IN  IF mid * mid <= x THEN SqrtSearch(x, mid, hi)
                               ELSE SqrtSearch(x, lo, mid - 1)

\* floor(sqrt(x)) for 0 <= x < 2^31.
ISqrt(x) == SqrtSearch(x, 0, Min(x, 46340))

\* ------------------------------------------------------------------------
\* AudioPreprocessor: the array methods (audio_preprocessor.py)
\* ------------------------------------------------------------------------

\* The amplitude 1.0 in grid units: the clip limits of normalize_audio.
One == 4

\* AudioPreprocessor.__init__: target_sample_rate: int = 16000
DefaultTargetSampleRate == 16000

\* normalize_audio: target_db: float = -20.0
DefaultTargetDb == -20

\* The sample values input arrays are built from: silence, the smallest
\* amplitude, full scale, and amplitudes beyond full scale on both sides.
Samples == {-MaxAmp, -1, 0, One, MaxAmp}

\* All arrays of at most n samples.
ArraysUpTo(n) == UNION {[1..k -> Samples] : k \in 0..n}

\* The target levels tried, in dB.
Dbs == {-20, -6, 20}

\* target_rms = 10**(target_db / 20), as the fraction num / den
\* (-6 dB rounded to 1/2).
TargetRms(target_db) ==
    CASE target_db = -20 -> [num |-> 1,  den |-> 10]
      [] target_db = -6  -> [num |-> 1,  den |-> 2]
      [] target_db = 0   -> [num |-> 1,  den |-> 1]
      [] target_db = 20  -> [num |-> 10, den |-> 1]

\* The sum of audio[k]**2 for k in lo..hi, by halves.
RECURSIVE SumSqRange(_, _, _)
SumSqRange(audio, lo, hi) ==
    IF lo > hi THEN 0
    ELSE IF lo = hi THEN audio[lo] * audio[lo]
    ELSE LET mid == (lo + hi) \div 2
         IN  SumSqRange(audio, lo, mid) + SumSqRange(audio, mid + 1, hi)

\* np.sum(audio**2)
SumSq(audio) == SumSqRange(audio, 1, Len(audio))

\* np.clip(x, -1.0, 1.0), sample by sample.
Clip(audio) == [k \in 1..Len(audio) |-> Max(-One, Min(One, audio[k]))]

\* audio * (target_rms / rms) with rms = sqrt(mean(audio**2)): sample s
\* becomes s * t * sqrt(n / ss), rounded towards zero on the grid.
Scale(audio, t) ==
    LET n  == Len(audio)
        ss == SumSq(audio)
    IN  [k \in 1..n |->
            Sgn(audio[k]) *
            ISqrt((audio[k] * audio[k] * t.num * t.num * n) \div (t.den * t.den * ss))]

\* normalize_audio without the np.clip line.
NormalizeAudioNoClip(audio, target_db) ==
    IF Len(audio) > 0 /\ SumSq(audio) = 0 THEN audio
    ELSE Scale(audio, TargetRms(target_db))

\* normalize_audio that takes the default level whatever target_db is.
NormalizeAudioFixedDb(audio, target_db) ==
    IF Len(audio) > 0 /\ SumSq(audio) = 0 THEN audio
    ELSE Clip(Scale(audio, TargetRms(DefaultTargetDb)))

\* AudioPreprocessor.normalize_audio.  rms == 0 exactly when every sample
\* is 0; the mean of an empty array is nan, which is not == 0, and the
\* product and the clip of an empty array are empty.
NormalizeAudio(audio, target_db) ==
    IF Len(audio) > 0 /\ SumSq(audio) = 0 THEN audio
    ELSE Clip(Scale(audio, TargetRms(target_db)))

\* librosa.resample(audio, orig_sr, target_sr): ceil(n * target / orig)
\* samples, each taken from the input sample at the same instant.
LibrosaResample(audio, orig_sr, target_sr) ==
    [j \in 1..CeilDiv(Len(audio) * target_sr, orig_sr) |->
        audio[((j - 1) * orig_sr) \div target_sr + 1]]

\* resample_audio that never calls librosa.resample.
ResampleAudioSkip(self_rate, audio, original_sr, target_sr) == audio

\* AudioPreprocessor.resample_audio; target_sr = 0 stands for None.
ResampleAudio(self_rate, audio, original_sr, target_sr) ==
    LET tsr == IF target_sr = 0 THEN self_rate ELSE target_sr
    IN  IF original_sr = tsr THEN audio
        ELSE LibrosaResample(audio, original_sr, tsr)

\* AudioPreprocessor.preprocess_audio_from_array: (audio, sample_rate).
PreprocessAudioFromArray(self_rate, audio, sr) ==
    [audio       |-> NormalizeAudio(ResampleAudio(self_rate, audio, sr, 0),
                                    DefaultTargetDb),
     sample_rate |-> self_rate]

\* ------------------------------------------------------------------------
\* Text: str.strip, str.join and TextPostprocessor (text_postprocessor.py)
\* ------------------------------------------------------------------------

\* Characters matched by \s.
Spaces == {" ", "\n"}

\* Characters matched by [.!?].
Enders == {".", "!", "?"}

\* Characters matched by [a-z] and by [A-Z].
Lower == {"a", "b"}

Upper == {"A", "B"}

\* Characters clean_text keeps: [\w\s.,!?;:()\-].
Kept == Lower \cup Upper \cup Spaces \cup Enders \cup {",", ";", ":", "(", ")", "-", "_"}

IsSpace(c) == c \in Spaces

RECURSIVE LStrip(_)
LStrip(s) ==
    IF s = <<>> THEN s
    ELSE IF IsSpace(Head(s)) THEN LStrip(Tail(s)) ELSE s

RECURSIVE RStrip(_)
RStrip(s) ==
    IF s = <<>> THEN s
    ELSE IF IsSpace(s[Len(s)]) THEN RStrip(SubSeq(s, 1, Len(s) - 1)) ELSE s

\* str.strip()
Strip(s) == RStrip(LStrip(s))

\* sep.join(parts)
RECURSIVE Join(_, _)
Join(parts, sep) ==
    IF parts = <<>> THEN <<>>
    ELSE IF Len(parts) = 1 THEN parts[1]
    ELSE parts[1] \o sep \o Join(Tail(parts), sep)

\* re.sub(r'\s+', ' ', text)
RECURSIVE CollapseSpaces(_)
CollapseSpaces(s) ==
    IF s = <<>> THEN s
    ELSE IF IsSpace(Head(s)) THEN <<" ">> \o CollapseSpaces(LStrip(s))
    ELSE <<Head(s)>> \o CollapseSpaces(Tail(s))

IsKept(c) == c \in Kept

\* TextPostprocessor.clean_text (_normalize_vietnamese_chars maps every
\* character to itself).
CleanText(text) == SelectSeq(Strip(CollapseSpaces(text)), IsKept)

\* re.sub(r'\s+([.!?])', r'\1', text)
RECURSIVE DropSpaceBeforeEnder(_)
DropSpaceBeforeEnder(s) ==
    IF s = <<>> THEN s
    ELSE IF IsSpace(Head(s))
         THEN LET rest == LStrip(s)
                  run  == SubSeq(s, 1, Len(s) - Len(rest))
              IN  IF rest # <<>> /\ Head(rest) \in Enders
                  THEN <<Head(rest)>> \o DropSpaceBeforeEnder(Tail(rest))
                  ELSE run \o DropSpaceBeforeEnder(rest)
         ELSE <<Head(s)>> \o DropSpaceBeforeEnder(Tail(s))

\* re.sub(r'([.!?])\s*(L)', r'\1 \2', text) for a character class L.
RECURSIVE SpaceAfterEnder(_, _)
SpaceAfterEnder(s, class) ==
    IF s = <<>> THEN s
    ELSE IF Head(s) \in Enders
         THEN LET rest == LStrip(Tail(s))
              IN  IF rest # <<>> /\ Head(rest) \in class
                  THEN <<Head(s), " ", Head(rest)>> \o SpaceAfterEnder(Tail(rest), class)
                  ELSE <<Head(s)>> \o SpaceAfterEnder(Tail(s), class)
         ELSE <<Head(s)>> \o SpaceAfterEnder(Tail(s), class)

\* add_punctuation that appends the period whatever the last character is.
AddPunctuationAlwaysAppends(text) ==
    LET ended == IF text # <<>> THEN Append(text, ".") ELSE text
    IN  SpaceAfterEnder(SpaceAfterEnder(DropSpaceBeforeEnder(ended), Lower), Upper)

\* TextPostprocessor.add_punctuation
AddPunctuation(text) ==
    LET ended == IF text # <<>> /\ text[Len(text)] \notin Enders
                 THEN Append(text, ".") ELSE text
    IN  SpaceAfterEnder(SpaceAfterEnder(DropSpaceBeforeEnder(ended), Lower), Upper)

\* str.upper() of one character.
ToUpper(c) == CASE c = "a" -> "A" [] c = "b" -> "B" [] OTHER -> c

\* The length of the longest prefix of s made of characters (not) in set.
RECURSIVE SpanLen(_, _, _)
SpanLen(s, set, member) ==
    IF s = <<>> \/ ((Head(s) \in set) # member) THEN 0
    ELSE 1 + SpanLen(Tail(s), set, member)

\* A text part stripped, its first character left as it is.
CapitalizePartKeepsCase(part) == Strip(part)

\* One text part of re.split(r'([.!?]+)', text), as capitalize_sentences
\* appends it: nothing when blank, else stripped with its first character
\* in upper case.
CapitalizePart(part) ==
    LET p == Strip(part)
    IN  IF p = <<>> THEN <<>> ELSE <<ToUpper(p[1])>> \o Tail(p)

\* TextPostprocessor.capitalize_sentences
RECURSIVE CapitalizeSentences(_)
CapitalizeSentences(text) ==
    LET n == SpanLen(text, Enders, FALSE)
        rest == SubSeq(text, n + 1, Len(text))
        m == SpanLen(rest, Enders, TRUE)
    IN  CapitalizePart(SubSeq(text, 1, n)) \o
        (IF rest = <<>> THEN <<>>
         ELSE SubSeq(rest, 1, m) \o CapitalizeSentences(SubSeq(rest, m + 1, Len(rest))))

\* TextPostprocessor.postprocess
Postprocess(text, add_punctuation, capitalize) ==
    LET cleaned    == CleanText(text)
        punctuated == IF add_punctuation THEN AddPunctuation(cleaned) ELSE cleaned
    IN  IF capitalize THEN CapitalizeSentences(punctuated) ELSE punctuated

\* ------------------------------------------------------------------------
\* Files and validate_audio_file (audio_preprocessor.py)
\* ------------------------------------------------------------------------

\* validate_audio_file: max_duration: int = 600
MaxDuration == 600

\* validate_audio_file: max_size_mb: int = 100
MaxSizeMb == 100

\* What a duration probe (librosa.get_duration, soundfile.info) gives:
\* it raises, or it reads a duration in seconds.
ProbeRaises == [ok |-> FALSE, seconds |-> 0]

Probes == {ProbeRaises} \cup [ok : {TRUE}, seconds : {MaxDuration, MaxDuration + 1}]

\* File sizes in bytes: exactly the limit, and one byte more.
Sizes == {MaxSizeMb * 1024 * 1024, MaxSizeMb * 1024 * 1024 + 1}

\* A path with no file under it: getsize, the probes and the decoders raise.
MissingFile ==
    [exists |-> FALSE, size |-> 0, librosa_duration |-> ProbeRaises,
     sf_duration |-> ProbeRaises, decode_ok |-> FALSE, audio |-> <<>>, sr |-> 0]

\* validate_audio_file with >= for > in the duration checks.
ValidateAudioFileGe(f, max_duration, max_size_mb) ==
    IF ~f.exists THEN "False"
    ELSE IF f.size > max_size_mb * 1024 * 1024 THEN "False"
    ELSE IF f.librosa_duration.ok
         THEN (IF f.librosa_duration.seconds >= max_duration THEN "False" ELSE "True")
    ELSE IF f.sf_duration.ok
         THEN (IF f.sf_duration.seconds >= max_duration THEN "False" ELSE "True")
    ELSE "True"

\* validate_audio_file asking soundfile first and librosa second.
ValidateAudioFileSoundfileFirst(f, max_duration, max_size_mb) ==
    IF ~f.exists THEN "False"
    ELSE IF f.size > max_size_mb * 1024 * 1024 THEN "False"
    ELSE IF f.sf_duration.ok
         THEN (IF f.sf_duration.seconds > max_duration THEN "False" ELSE "True")
    ELSE IF f.librosa_duration.ok
         THEN (IF f.librosa_duration.seconds > max_duration THEN "False" ELSE "True")
    ELSE "True"

\* AudioPreprocessor.validate_audio_file: "True", "False", or "raise" if
\* an exception left it.  os.path.getsize raises for a missing file and the
\* outer except returns False; file_size_mb > max_size_mb compares bytes
\* with max_size_mb * 1024 * 1024; the soundfile probe is tried only after
\* the librosa probe raised.
ValidateAudioFile(f, max_duration, max_size_mb) ==
    IF ~f.exists THEN "False"
    ELSE IF f.size > max_size_mb * 1024 * 1024 THEN "False"
    ELSE IF f.librosa_duration.ok
         THEN (IF f.librosa_duration.seconds > max_duration THEN "False" ELSE "True")
    ELSE IF f.sf_duration.ok
         THEN (IF f.sf_duration.seconds > max_duration THEN "False" ELSE "True")
    ELSE "True"

\* AudioPreprocessor.preprocess_audio as one function: the exception of
\* load_audio is re-raised, the result of validate_audio_file is only
\* logged.
PreprocessAudio(self_rate, f) ==
    IF ~(f.exists /\ f.decode_ok)
    THEN [raised |-> TRUE, audio |-> <<>>, sample_rate |-> 0]
    ELSE [raised      |-> FALSE,
          audio       |-> NormalizeAudio(ResampleAudio(self_rate, f.audio, f.sr, 0),
                                         DefaultTargetDb),
          sample_rate |-> self_rate]

\* ------------------------------------------------------------------------
\* State
\* ------------------------------------------------------------------------

VARIABLES
    pc,                  \* where the call stands
    entry,               \* the function that was called
    file,                \* what lies under the path given to it
    target_sample_rate,  \* AudioPreprocessor.target_sample_rate
    audio,               \* the local variable audio
    sample_rate,         \* original_sr, then the returned sample_rate
    valid,               \* what validate_audio_file returned
    trace,               \* the steps started so far, in order
    i,                   \* transcribe_long_audio: the loop index
    transcriptions,      \* transcribe_long_audio: the list
    calls,               \* every speech_model.transcribe call so far
    raw_transcription,   \* the text handed to postprocess
    ret,                 \* what the entry point returned
    exc,                 \* the step whose exception is or was in flight
    arg,                 \* SpecAudio: the client's input array
    last,                \* SpecAudio: the latest call and its result
    remembered,          \* SpecAudio: an earlier call and its result
    st_pc,               \* SpecChat: "idle", or "rerun" when a script run is due
    session_state,       \* SpecChat: st.session_state
    uploaded_audio,      \* SpecChat: the file in the upload widget, and its key
    voice_audio_file,    \* SpecChat: the file in the voice widget, and its key
    js_text_input,       \* SpecChat: the value of the hidden text input
    clear_clicked,       \* SpecChat: the Clear button was clicked for this run
    handled,             \* SpecChat: how often each widget's value was handled
    last_run,            \* SpecChat: what the latest script run did
    text_pc,             \* SpecText: where the call of a text function stands
    text_op,             \* SpecText: the text function that was called
    text_flags,          \* SpecText: postprocess: add_punctuation, capitalize
    text_in,             \* SpecText: the argument text
    text_now,            \* SpecText: the local variable text, then the result
    text_steps,          \* SpecText: postprocess: the functions applied, in order
    text_prev,           \* SpecText: the call before, when its result was fed back
    mn_pc,               \* SpecMinimal: where the button handler stands
    temp_exists,         \* SpecMinimal: the temporary file is on the disk
    mn_exc,              \* SpecMinimal: the exception leaving the handler
    mn_session           \* SpecMinimal: the results kept in st.session_state

minimalVars == <<mn_pc, temp_exists, mn_exc, mn_session>>

chatVars == <<st_pc, session_state, uploaded_audio, voice_audio_file,
              js_text_input, clear_clicked, handled, last_run>>

textVars == <<text_pc, text_op, text_flags, text_in, text_now, text_steps, text_prev>>

vars == <<pc, entry, file, target_sample_rate, audio, sample_rate, valid, trace,
          i, transcriptions, calls, raw_transcription, ret, exc,
          arg, last, remembered, chatVars, textVars, minimalVars>>

clientVars == <<arg, last, remembered>>

inputVars == <<entry, file, target_sample_rate>>

loopVars == <<i, transcriptions>>

\* ------------------------------------------------------------------------
\* Inputs
\* ------------------------------------------------------------------------

\* streamlit_app_minimal.py: chunk_samples = 30 * sample_rate
ChunkSeconds == 30

\* The decoded audio of a file holds at most this many full chunks (at one
\* sample per second) and one sample more.
MaxFileChunks == 2

\* transcribe_long_audio called directly: the longest array, the highest rate.
MaxLongLen == 65

MaxRate == 2

\* The preprocessors tried: the default rate, and rates of 1 and 2 samples
\* per second, at which 30 seconds are 30 and 60 samples.
TargetRates == {1, 2, DefaultTargetSampleRate}

\* Source rates around a target rate: the same, the double, the half.
SourceRates(tsr) == {tsr, 2 * tsr} \cup (IF tsr % 2 = 0 THEN {tsr \div 2} ELSE {})

\* A signal of n samples that visits amplitudes on both sides of full scale.
Tone(n) == [k \in 1..n |-> ((5 * k) % (2 * MaxAmp + 1)) - MaxAmp]

Silence(n) == [k \in 1..n |-> 0]

FileLens ==
    {0, 1} \cup {k * ChunkSeconds : k \in 1..MaxFileChunks}
           \cup {k * ChunkSeconds + 1 : k \in 1..MaxFileChunks}

DecodedArrays == {Tone(n) : n \in FileLens} \cup {Silence(1), Silence(ChunkSeconds + 1)}

ExistingFiles(tsr) ==
    {[exists |-> TRUE, size |-> sz, librosa_duration |-> p1, sf_duration |-> p2,
      decode_ok |-> TRUE, audio |-> a, sr |-> r] :
        sz \in Sizes, p1 \in Probes, p2 \in Probes, a \in DecodedArrays,
        r \in SourceRates(tsr)}
    \cup
    {[exists |-> TRUE, size |-> sz, librosa_duration |-> p1, sf_duration |-> p2,
      decode_ok |-> FALSE, audio |-> <<>>, sr |-> 0] :
        sz \in Sizes, p1 \in Probes, p2 \in Probes}

Files(tsr) == {MissingFile} \cup ExistingFiles(tsr)

\* What speech_model.transcribe does with one array: it raises, or it
\* returns a text (empty, blank, with whitespace around it, a sentence,
\* nothing but a character that is neither a word character nor
\* punctuation, as the note sign Whisper writes for music).
ModelRaises == [ok |-> FALSE, text |-> <<>>]

ModelTexts ==
    {<<>>, <<" ">>, <<" ", "a", "\n">>, <<"b", " ", ".", "a">>, <<" ", "#">>}

ModelOutcomes == {ModelRaises} \cup [ok : {TRUE}, text : ModelTexts]

NoCall ==
    [op |-> "none", audio |-> <<>>, sr |-> 0, target |-> 0, db |-> 0,
     raised |-> FALSE, ret_audio |-> <<>>, ret_sr |-> 0]

NoReturn == [kind |-> "none", none |-> FALSE, text |-> <<>>, status |-> ""]

\* return text, status
Returned(text, status) ==
    [kind |-> "returned", none |-> FALSE, text |-> text, status |-> status]

\* return None, status
ReturnedNone(status) ==
    [kind |-> "returned", none |-> TRUE, text |-> <<>>, status |-> status]

\* The exception left the function.
Raised == [kind |-> "raised", none |-> FALSE, text |-> <<>>, status |-> ""]

\* st.session_state as the first run of main() leaves it (streamlit_app.py,
\* lines 485-500); last_sent_text is not set before the first message: the
\* empty text stands for None, which no non-empty message equals.
InitSession ==
    [messages                  |-> <<>>,
     upload_counter            |-> 0,
     voice_upload_counter      |-> 0,
     processing_uploaded_audio |-> FALSE,
     processing_voice_audio    |-> FALSE,
     last_sent_text            |-> <<>>]

\* A file uploader nobody has put a file into.
NoUpload == [present |-> FALSE, key |-> 0, size |-> 0]

\* The hidden text input before anything was written into it.
NoInput == [kind |-> "empty", text |-> <<>>, sid |-> 0, origin |-> ""]

\* What one script run did: the branch it took; for a file, its size and
\* whether the temporary copy was written and transcribe_audio called; the
\* calls of call_counseling_api; the messages appended.
RunRecord(branch, size, written, transcribed, api, user, appended) ==
    [branch |-> branch, size |-> size, temp_written |-> written,
     transcribe_called |-> transcribed, api_calls |-> api,
     user_messages |-> user, appended |-> appended]

NoRun == RunRecord("none", 0, FALSE, FALSE, 0, 0, 0)

\* The chat app before any interaction.
ChatIdle ==
    /\ st_pc = "idle"
    /\ session_state = InitSession
    /\ uploaded_audio = NoUpload
    /\ voice_audio_file = NoUpload
    /\ js_text_input = NoInput
    /\ clear_clicked = FALSE
    /\ handled = [upload |-> 0, voice |-> 0, text |-> 0]
    /\ last_run = NoRun

\* st.session_state of the minimal app: no results stored.
NoResults == [stored |-> FALSE, result |-> <<>>, status |-> ""]

\* The minimal app before the button is clicked.
MinimalIdle ==
    /\ mn_pc = "none"
    /\ temp_exists = FALSE
    /\ mn_exc = "none"
    /\ mn_session = NoResults

NoTextCall == [op |-> "none", text_in |-> <<>>, result |-> <<>>]

\* No text function has been called.
TextIdle ==
    /\ text_pc = "idle"
    /\ text_op = "none"
    /\ text_flags = [add_punctuation |-> FALSE, capitalize |-> FALSE]
    /\ text_in = <<>>
    /\ text_now = <<>>
    /\ text_steps = <<>>
    /\ text_prev = NoTextCall

\* ------------------------------------------------------------------------
\* Spec: one call of transcribe_video, transcribe_audio or
\* transcribe_long_audio
\* ------------------------------------------------------------------------

InitCall ==
    /\ pc = "start"
    /\ audio = <<>>
    /\ sample_rate = 0
    /\ valid = "none"
    /\ trace = <<>>
    /\ i = 0
    /\ transcriptions = <<>>
    /\ calls = <<>>
    /\ raw_transcription = <<>>
    /\ ret = NoReturn
    /\ exc = "none"
    /\ arg = <<>>
    /\ last = NoCall
    /\ remembered = NoCall
    /\ ChatIdle
    /\ MinimalIdle
    /\ TextIdle

\* transcribe_video(path) and transcribe_audio(path): get_components()
\* builds AudioPreprocessor().
InitApp ==
    /\ entry \in {"transcribe_video", "transcribe_audio"}
    /\ target_sample_rate \in TargetRates
    /\ file \in Files(target_sample_rate)
    /\ InitCall

\* transcribe_long_audio(speech_model, audio, sample_rate)
InitLong ==
    /\ entry = "transcribe_long_audio"
    /\ target_sample_rate = DefaultTargetSampleRate
    /\ file = MissingFile
    /\ pc = "long_loop"
    /\ audio \in {Tone(n) : n \in 0..MaxLongLen}
    /\ sample_rate \in 1..MaxRate
    /\ valid = "none"
    /\ trace = <<>>
    /\ i = 0
    /\ transcriptions = <<>>
    /\ calls = <<>>
    /\ raw_transcription = <<>>
    /\ ret = NoReturn
    /\ exc = "none"
    /\ arg = <<>>
    /\ last = NoCall
    /\ remembered = NoCall
    /\ ChatIdle
    /\ MinimalIdle
    /\ TextIdle

Init == InitApp \/ InitLong

\* An exception raised in step: it travels to the nearest handler.
Raise(step) ==
    /\ exc' = step
    /\ pc' = "except"

\* One call of speech_model.transcribe(chunk, sample_rate) on
\* audio[start:stop], with its outcome.
ModelCall(start, stop, outcome) ==
    [start |-> start, stop |-> stop, chunk |-> SubSeq(audio, start + 1, stop),
     ok |-> outcome.ok, text |-> outcome.text]

\* transcribe_video without lines 58-59: a missing file is found out by
\* load_audio.
StartWithoutCheck ==
    /\ pc = "start"
    /\ pc' = "components"
    /\ UNCHANGED <<inputVars, audio, sample_rate, valid, trace, loopVars, calls,
                   raw_transcription, ret, exc, clientVars, chatVars, textVars, minimalVars>>

\* transcribe_video, lines 58-59: os.path.exists; transcribe_audio has no
\* such check.
Start ==
    /\ pc = "start"
    /\ IF entry = "transcribe_video" /\ ~file.exists
       THEN /\ ret' = Returned(<<>>, "not_found")
            /\ pc' = "done"
       ELSE /\ pc' = "components"
            /\ UNCHANGED ret
    /\ UNCHANGED <<inputVars, audio, sample_rate, valid, trace, loopVars, calls,
                   raw_transcription, exc, clientVars, chatVars, textVars, minimalVars>>

\* get_components(): the cached components, or the exception of loading
\* the speech model.
GetComponents ==
    /\ pc = "components"
    /\ trace' = Append(trace, "get_components")
    /\ \E loaded \in BOOLEAN :
          IF loaded THEN pc' = "pp_validate" /\ UNCHANGED exc
                    ELSE Raise("get_components")
    /\ UNCHANGED <<inputVars, audio, sample_rate, valid, loopVars, calls,
                   raw_transcription, ret, clientVars, chatVars, textVars, minimalVars>>

\* preprocess_audio, lines 181-182, rejecting what fails validation.
PpValidateRejects ==
    /\ pc = "pp_validate"
    /\ trace' = Append(trace, "validate_audio_file")
    /\ valid' = ValidateAudioFile(file, MaxDuration, MaxSizeMb)
    /\ IF valid' = "True" THEN pc' = "pp_load" /\ UNCHANGED exc
                          ELSE Raise("validate_audio_file")
    /\ UNCHANGED <<inputVars, audio, sample_rate, loopVars, calls,
                   raw_transcription, ret, clientVars, chatVars, textVars, minimalVars>>

\* preprocess_audio, lines 181-182: validate_audio_file; a False result is
\* logged ("attempting to process anyway") and the call goes on.
PpValidate ==
    /\ pc = "pp_validate"
    /\ trace' = Append(trace, "validate_audio_file")
    /\ valid' = ValidateAudioFile(file, MaxDuration, MaxSizeMb)
    /\ IF valid' = "raise" THEN Raise("validate_audio_file")
                           ELSE pc' = "pp_load" /\ UNCHANGED exc
    /\ UNCHANGED <<inputVars, audio, sample_rate, loopVars, calls,
                   raw_transcription, ret, clientVars, chatVars, textVars, minimalVars>>

\* preprocess_audio, line 185, going on to normalize_audio at once.
PpLoadSkipsResample ==
    /\ pc = "pp_load"
    /\ trace' = Append(trace, "load_audio")
    /\ IF file.exists /\ file.decode_ok
       THEN /\ audio' = file.audio
            /\ sample_rate' = file.sr
            /\ pc' = "pp_normalize"
            /\ UNCHANGED exc
       ELSE /\ Raise("load_audio")
            /\ UNCHANGED <<audio, sample_rate>>
    /\ UNCHANGED <<inputVars, valid, loopVars, calls, raw_transcription, ret,
                   clientVars, chatVars, textVars, minimalVars>>

\* preprocess_audio, line 185: load_audio gives the mono audio and its
\* rate, or raises when neither librosa nor soundfile decodes the file.
PpLoad ==
    /\ pc = "pp_load"
    /\ trace' = Append(trace, "load_audio")
    /\ IF file.exists /\ file.decode_ok
       THEN /\ audio' = file.audio
            /\ sample_rate' = file.sr
            /\ pc' = "pp_resample"
            /\ UNCHANGED exc
       ELSE /\ Raise("load_audio")
            /\ UNCHANGED <<audio, sample_rate>>
    /\ UNCHANGED <<inputVars, valid, loopVars, calls, raw_transcription, ret,
                   clientVars, chatVars, textVars, minimalVars>>

\* preprocess_audio, line 188: resample_audio(audio, original_sr);
\* librosa.resample, when it is called, may raise.
PpResample ==
    /\ pc = "pp_resample"
    /\ trace' = Append(trace, "resample_audio")
    /\ \/ /\ audio' = ResampleAudio(target_sample_rate, audio, sample_rate, 0)
          /\ pc' = "pp_normalize"
          /\ UNCHANGED exc
       \/ /\ sample_rate # target_sample_rate
          /\ Raise("resample_audio")
          /\ UNCHANGED audio
    /\ UNCHANGED <<inputVars, sample_rate, valid, loopVars, calls,
                   raw_transcription, ret, clientVars, chatVars, textVars, minimalVars>>

\* preprocess_audio, lines 191-194: normalize_audio(audio), then
\* return audio, self.target_sample_rate to the caller.
PpNormalize ==
    /\ pc = "pp_normalize"
    /\ trace' = Append(trace, "normalize_audio")
    /\ audio' = NormalizeAudio(audio, DefaultTargetDb)
    /\ sample_rate' = target_sample_rate
    /\ pc' = IF entry = "transcribe_video" THEN "tv_transcribe" ELSE "ta_check"
    /\ UNCHANGED <<inputVars, valid, loopVars, calls, raw_transcription, ret, exc,
                   clientVars, chatVars, textVars, minimalVars>>

\* transcribe_video, lines 69-70, with >= for >: audio of exactly 30
\* seconds is chunked too.
TvTranscribeLongAtLimit ==
    /\ pc = "tv_transcribe"
    /\ Len(audio) >= ChunkSeconds * sample_rate
    /\ trace' = Append(trace, "transcribe_long_audio")
    /\ i' = 0
    /\ transcriptions' = <<>>
    /\ pc' = "long_loop"
    /\ UNCHANGED <<inputVars, audio, sample_rate, valid, calls, raw_transcription,
                   ret, exc, clientVars, chatVars, textVars, minimalVars>>

\* transcribe_video, lines 69-70: the audio is longer than 30 seconds.
TvTranscribeLong ==
    /\ pc = "tv_transcribe"
    /\ Len(audio) > ChunkSeconds * sample_rate
    /\ trace' = Append(trace, "transcribe_long_audio")
    /\ i' = 0
    /\ transcriptions' = <<>>
    /\ pc' = "long_loop"
    /\ UNCHANGED <<inputVars, audio, sample_rate, valid, calls, raw_transcription,
                   ret, exc, clientVars, chatVars, textVars, minimalVars>>

\* transcribe_video, lines 71-72: one transcribe call on the whole audio.
TvTranscribeSingle ==
    /\ pc = "tv_transcribe"
    /\ ~(Len(audio) > ChunkSeconds * sample_rate)
    /\ trace' = Append(trace, "transcribe")
    /\ \E o \in ModelOutcomes :
          /\ calls' = Append(calls, ModelCall(0, Len(audio), o))
          /\ IF o.ok
             THEN /\ raw_transcription' = o.text
                  /\ pc' = "tv_postprocess"
                  /\ UNCHANGED exc
             ELSE /\ Raise("transcribe")
                  /\ UNCHANGED raw_transcription
    /\ UNCHANGED <<inputVars, audio, sample_rate, valid, loopVars, ret, clientVars,
                   chatVars, textVars, minimalVars>>

\* total_chunks without the chunk for the remainder.
TotalChunksFloor(n, chunk_samples) == n \div chunk_samples

\* total_chunks = len(audio) // chunk_samples
\*                + (1 if len(audio) % chunk_samples > 0 else 0)
TotalChunks(n, chunk_samples) ==
    n \div chunk_samples + (IF n % chunk_samples > 0 THEN 1 ELSE 0)

\* Lines 50-51 appending the transcription as the model returned it.
AppendTranscriptionRaw(list, text) ==
    IF Strip(text) # <<>> THEN Append(list, text) ELSE list

\* transcribe_long_audio, lines 50-51:
\* if chunk_transcription.strip(): transcriptions.append(....strip())
AppendTranscription(list, text) ==
    IF Strip(text) # <<>> THEN Append(list, Strip(text)) ELSE list

\* One iteration of the loop that goes on to the next chunk when
\* transcribe raises.
LongChunkSkipsFailed ==
    /\ pc = "long_loop"
    /\ LET chunk_samples == ChunkSeconds * sample_rate
           start_idx     == i * chunk_samples
           end_idx       == Min((i + 1) * chunk_samples, Len(audio))
       IN  /\ i < TotalChunks(Len(audio), chunk_samples)
           /\ i' = i + 1
           /\ pc' = "long_loop"
           /\ UNCHANGED exc
           /\ IF end_idx > start_idx
              THEN \E o \in ModelOutcomes :
                      /\ calls' = Append(calls, ModelCall(start_idx, end_idx, o))
                      /\ transcriptions' =
                            IF o.ok THEN AppendTranscription(transcriptions, o.text)
                                    ELSE transcriptions
              ELSE UNCHANGED <<calls, transcriptions>>
    /\ UNCHANGED <<inputVars, audio, sample_rate, valid, trace, raw_transcription,
                   ret, clientVars, chatVars, textVars, minimalVars>>

\* transcribe_long_audio, lines 43-51: one iteration of the loop.  The
\* function has no try: an exception of transcribe leaves it.
LongChunk ==
    /\ pc = "long_loop"
    /\ LET chunk_samples == ChunkSeconds * sample_rate
           start_idx     == i * chunk_samples
           end_idx       == Min((i + 1) * chunk_samples, Len(audio))
       IN  /\ i < TotalChunks(Len(audio), chunk_samples)
           /\ IF end_idx > start_idx
              THEN \E o \in ModelOutcomes :
                      /\ calls' = Append(calls, ModelCall(start_idx, end_idx, o))
                      /\ IF o.ok
                         THEN /\ transcriptions' =
                                    AppendTranscription(transcriptions, o.text)
                              /\ i' = i + 1
                              /\ pc' = "long_loop"
                              /\ UNCHANGED exc
                         ELSE /\ Raise("transcribe")
                              /\ UNCHANGED <<i, transcriptions>>
              ELSE /\ i' = i + 1
                   /\ pc' = "long_loop"
                   /\ UNCHANGED <<calls, transcriptions, exc>>
    /\ UNCHANGED <<inputVars, audio, sample_rate, valid, trace, raw_transcription,
                   ret, clientVars, chatVars, textVars, minimalVars>>

\* transcribe_long_audio, line 53: return " ".join(transcriptions), to
\* transcribe_video (line 70) or to the caller.
LongReturn ==
    /\ pc = "long_loop"
    /\ ~(i < TotalChunks(Len(audio), ChunkSeconds * sample_rate))
    /\ IF entry = "transcribe_video"
       THEN /\ raw_transcription' = Join(transcriptions, <<" ">>)
            /\ pc' = "tv_postprocess"
            /\ UNCHANGED ret
       ELSE /\ ret' = Returned(Join(transcriptions, <<" ">>), "")
            /\ pc' = "done"
            /\ UNCHANGED raw_transcription
    /\ UNCHANGED <<inputVars, audio, sample_rate, valid, trace, loopVars, calls,
                   exc, clientVars, chatVars, textVars, minimalVars>>

\* transcribe_video, lines 76-82: postprocess, return with the success
\* status.
TvPostprocess ==
    /\ pc = "tv_postprocess"
    /\ trace' = Append(trace, "postprocess")
    /\ ret' = Returned(Postprocess(raw_transcription, TRUE, TRUE), "completed")
    /\ pc' = "done"
    /\ UNCHANGED <<inputVars, audio, sample_rate, valid, loopVars, calls,
                   raw_transcription, exc, clientVars, chatVars, textVars, minimalVars>>

\* transcribe_audio, lines 348-349: if audio is None or len(audio) == 0.
TaCheck ==
    /\ pc = "ta_check"
    /\ IF Len(audio) = 0
       THEN /\ ret' = ReturnedNone("Audio preprocessing failed")
            /\ pc' = "done"
       ELSE /\ pc' = "ta_transcribe"
            /\ UNCHANGED ret
    /\ UNCHANGED <<inputVars, audio, sample_rate, valid, trace, loopVars, calls,
                   raw_transcription, exc, clientVars, chatVars, textVars, minimalVars>>

\* transcribe_audio, lines 352-355: one transcribe call; a blank
\* transcription is a failure.
TaTranscribe ==
    /\ pc = "ta_transcribe"
    /\ trace' = Append(trace, "transcribe")
    /\ \E o \in ModelOutcomes :
          /\ calls' = Append(calls, ModelCall(0, Len(audio), o))
          /\ IF ~o.ok
             THEN /\ Raise("transcribe")
                  /\ UNCHANGED <<raw_transcription, ret>>
             ELSE IF o.text = <<>> \/ Strip(o.text) = <<>>
             THEN /\ ret' = ReturnedNone("Transcription failed")
                  /\ pc' = "done"
                  /\ UNCHANGED <<raw_transcription, exc>>
             ELSE /\ raw_transcription' = o.text
                  /\ pc' = "ta_postprocess"
                  /\ UNCHANGED <<ret, exc>>
    /\ UNCHANGED <<inputVars, audio, sample_rate, valid, loopVars, clientVars,
                   chatVars, textVars, minimalVars>>

\* transcribe_audio, lines 358-361: postprocess(transcription), return
\* final_text, "Success".
TaPostprocess ==
    /\ pc = "ta_postprocess"
    /\ trace' = Append(trace, "postprocess")
    /\ ret' = Returned(Postprocess(raw_transcription, TRUE, TRUE), "Success")
    /\ pc' = "done"
    /\ UNCHANGED <<inputVars, audio, sample_rate, valid, loopVars, calls,
                   raw_transcription, exc, clientVars, chatVars, textVars, minimalVars>>

\* An except clause that re-raises instead of returning.
ExceptReraises ==
    /\ pc = "except"
    /\ ret' = Raised
    /\ pc' = "done"
    /\ UNCHANGED <<inputVars, audio, sample_rate, valid, trace, loopVars, calls,
                   raw_transcription, exc, clientVars, chatVars, textVars, minimalVars>>

\* The handler the exception reaches: transcribe_video, lines 84-86,
\* returns "" and the error status; transcribe_audio, lines 363-365,
\* returns None and the error message; transcribe_long_audio has none.
Except ==
    /\ pc = "except"
    /\ ret' = CASE entry = "transcribe_video" -> Returned(<<>>, "error")
                [] entry = "transcribe_audio" -> ReturnedNone("Error")
                [] OTHER                      -> Raised
    /\ pc' = "done"
    /\ UNCHANGED <<inputVars, audio, sample_rate, valid, trace, loopVars, calls,
                   raw_transcription, exc, clientVars, chatVars, textVars, minimalVars>>

Next ==
    \/ Start
    \/ GetComponents
    \/ PpValidate
    \/ PpLoad
    \/ PpResample
    \/ PpNormalize
    \/ TvTranscribeLong
    \/ TvTranscribeSingle
    \/ LongChunk
    \/ LongReturn
    \/ TvPostprocess
    \/ TaCheck
    \/ TaTranscribe
    \/ TaPostprocess
    \/ Except

Spec == Init /\ [][Next]_vars

\* ------------------------------------------------------------------------
\* SpecAudio: a client holding one AudioPreprocessor and one array calls
\* resample_audio, normalize_audio, preprocess_audio_from_array and
\* preprocess_audio (on a file that decodes to the array) in any order
\* ------------------------------------------------------------------------

\* The preprocessors the client holds: the default one and one of 2
\* samples per second.
ClientRates == {2, DefaultTargetSampleRate}

\* The explicit target_sr values the client passes to resample_audio: none
\* (None), and twice the preprocessor's own rate.
ClientTargets(tsr) == {0, 2 * tsr}

InitAudio ==
    /\ entry = "client"
    /\ pc = "client"
    /\ target_sample_rate \in ClientRates
    /\ file = MissingFile
    /\ arg \in ArraysUpTo(MaxLen)
    /\ last = NoCall
    /\ remembered = NoCall
    /\ audio = <<>>
    /\ sample_rate = 0
    /\ valid = "none"
    /\ trace = <<>>
    /\ i = 0
    /\ transcriptions = <<>>
    /\ calls = <<>>
    /\ raw_transcription = <<>>
    /\ ret = NoReturn
    /\ exc = "none"
    /\ ChatIdle
    /\ MinimalIdle
    /\ TextIdle

pipelineVars ==
    <<pc, entry, file, audio, sample_rate, valid, trace, i, transcriptions,
      calls, raw_transcription, ret, exc>>

\* resample_audio that keeps an explicit target_sr as the new
\* self.target_sample_rate.
CallResampleKeepsRate ==
    /\ pc = "client"
    /\ \E orig \in SourceRates(target_sample_rate),
          tgt \in ClientTargets(target_sample_rate) :
          /\ last' = [op |-> "resample_audio", audio |-> arg, sr |-> orig,
                      target |-> tgt, db |-> 0, raised |-> FALSE,
                      ret_audio |-> ResampleAudio(target_sample_rate, arg, orig, tgt),
                      ret_sr |-> 0]
          /\ target_sample_rate' = IF tgt = 0 THEN target_sample_rate ELSE tgt
    /\ UNCHANGED <<arg, remembered, pipelineVars, chatVars, textVars,
                   minimalVars>>

\* resample_audio(arg, orig, tgt), tgt given or None.  It reads
\* self.target_sample_rate and audio, and assigns neither.
CallResample ==
    /\ pc = "client"
    /\ \E orig \in SourceRates(target_sample_rate),
          tgt \in ClientTargets(target_sample_rate) :
          last' = [op |-> "resample_audio", audio |-> arg, sr |-> orig,
                   target |-> tgt, db |-> 0, raised |-> FALSE,
                   ret_audio |-> ResampleAudio(target_sample_rate, arg, orig, tgt),
                   ret_sr |-> 0]
    /\ UNCHANGED <<arg, target_sample_rate, remembered, pipelineVars,
                   chatVars, textVars, minimalVars>>

\* normalize_audio that scales and clips the caller's array in place.
CallNormalizeInPlace ==
    /\ pc = "client"
    /\ \E db \in Dbs :
          /\ last' = [op |-> "normalize_audio", audio |-> arg, sr |-> 0,
                      target |-> 0, db |-> db, raised |-> FALSE,
                      ret_audio |-> NormalizeAudio(arg, db), ret_sr |-> 0]
          /\ arg' = NormalizeAudio(arg, db)
    /\ UNCHANGED <<target_sample_rate, remembered, pipelineVars, chatVars,
                   textVars, minimalVars>>

\* normalize_audio(arg, db): audio * gain and np.clip build new arrays; the
\* input is returned as it is when rms == 0.
CallNormalize ==
    /\ pc = "client"
    /\ \E db \in Dbs :
          last' = [op |-> "normalize_audio", audio |-> arg, sr |-> 0,
                   target |-> 0, db |-> db, raised |-> FALSE,
                   ret_audio |-> NormalizeAudio(arg, db), ret_sr |-> 0]
    /\ UNCHANGED <<arg, target_sample_rate, remembered, pipelineVars,
                   chatVars, textVars, minimalVars>>

\* preprocess_audio_from_array(arg, sr)
CallFromArray ==
    /\ pc = "client"
    /\ \E sr \in SourceRates(target_sample_rate) :
          LET r == PreprocessAudioFromArray(target_sample_rate, arg, sr)
          IN  last' = [op |-> "preprocess_audio_from_array", audio |-> arg,
                       sr |-> sr, target |-> 0, db |-> 0, raised |-> FALSE,
                       ret_audio |-> r.audio, ret_sr |-> r.sample_rate]
    /\ UNCHANGED <<arg, target_sample_rate, remembered, pipelineVars,
                   chatVars, textVars, minimalVars>>

\* preprocess_audio(path), the file under path decoding to arg at rate sr,
\* or not decoding at all.
CallPreprocessAudio ==
    /\ pc = "client"
    /\ \E sr \in SourceRates(target_sample_rate), decodes \in BOOLEAN :
          LET f == [exists |-> TRUE, size |-> 0, librosa_duration |-> ProbeRaises,
                    sf_duration |-> ProbeRaises, decode_ok |-> decodes,
                    audio |-> arg, sr |-> sr]
              r == PreprocessAudio(target_sample_rate, f)
          IN  last' = [op |-> "preprocess_audio", audio |-> arg,
                       sr |-> IF decodes THEN sr ELSE 0,
                       target |-> 0, db |-> 0, raised |-> r.raised,
                       ret_audio |-> r.audio, ret_sr |-> r.sample_rate]
    /\ UNCHANGED <<arg, target_sample_rate, remembered, pipelineVars,
                   chatVars, textVars, minimalVars>>

\* The client keeps the latest call and its result, to compare a later
\* call with it.
Remember ==
    /\ pc = "client"
    /\ last # NoCall
    /\ remembered' = last
    /\ last' = NoCall
    /\ UNCHANGED <<arg, target_sample_rate, pipelineVars, chatVars,
                   textVars, minimalVars>>

NextAudio ==
    \/ CallResample
    \/ CallNormalize
    \/ CallFromArray
    \/ CallPreprocessAudio
    \/ Remember

SpecAudio == InitAudio /\ [][NextAudio]_vars

\* ------------------------------------------------------------------------
\* SpecChat: the chat app (streamlit_app.py, main).  The framework runs the
\* whole script once per interaction and once more after every st.rerun();
\* st.rerun() ends the run it is called in.  Widget values and
\* st.session_state live on between runs; a file uploader shows the file
\* put into it for as long as its key stays the same.
\* ------------------------------------------------------------------------

\* main, lines 948 and 1006: max_size_mb = 50
ChatMaxSizeMb == 50

\* The files a user puts into one uploader, at most.
MaxUploads == 2

\* The user types while the chat holds fewer messages than this.
MaxMessages == 2

\* handled counts up to this ("twice or more").
MaxHandled == 2

\* Sizes of the files put into an uploader: exactly 50 MB, one byte more.
UploadSizes == {ChatMaxSizeMb * 1024 * 1024, ChatMaxSizeMb * 1024 * 1024 + 1}

\* What is written into the hidden text input.  sendMessage (line 702)
\* writes JSON.stringify of {text, sid: Date.now(), origin: 'send_button'}
\* with a trimmed, non-empty text; the same text sent again comes with a
\* new sid.  Other writers may leave JSON of another origin, or plain text.
TypedTexts ==
    [kind : {"json"}, text : {<<"a">>, <<"b">>}, sid : {1, 2}, origin : {"send_button"}]
    \cup {[kind |-> "json", text |-> <<"a">>, sid |-> 1, origin |-> "other"],
          [kind |-> "plain", text |-> <<" ", "a">>, sid |-> 0, origin |-> ""]}

\* The string the hidden input holds; for JSON only its first and last
\* character and the text inside are kept.
RawInput(js) ==
    CASE js.kind = "empty" -> <<>>
      [] js.kind = "plain" -> js.text
      [] js.kind = "json"  -> <<"{">> \o js.text \o <<"}">>

\* Lines 899-911: user_message.  The text field, stripped, of JSON that
\* parses to a dict with origin 'send_button'; else the whole string,
\* stripped; None for the empty input.
UserMessage(js) ==
    IF js.kind = "json" /\ js.origin = "send_button" THEN Strip(js.text)
    ELSE Strip(RawInput(js))

InitChat ==
    /\ entry = "chat"
    /\ pc = "chat"
    /\ target_sample_rate = DefaultTargetSampleRate
    /\ file = MissingFile
    /\ audio = <<>>
    /\ sample_rate = 0
    /\ valid = "none"
    /\ trace = <<>>
    /\ i = 0
    /\ transcriptions = <<>>
    /\ calls = <<>>
    /\ raw_transcription = <<>>
    /\ ret = NoReturn
    /\ exc = "none"
    /\ arg = <<>>
    /\ last = NoCall
    /\ remembered = NoCall
    /\ ChatIdle
    /\ MinimalIdle
    /\ TextIdle

\* What the run sees in a file uploader created with key counter: the file
\* put in under that key, or None.
Shown(widget, counter) == widget.present /\ widget.key = counter

Message(role, content) == [role |-> role, content |-> content]

\* Lines 957-986 and 1015-1039: the messages after transcribe_audio and
\* call_counseling_api; without a transcription, or without a response,
\* only st.error is called.
AfterTranscription(messages, transcribed, responded) ==
    IF ~transcribed THEN messages
    ELSE IF ~responded THEN Append(messages, Message("user", <<"transcription">>))
    ELSE messages \o <<Message("user", <<"transcription">>),
                       Message("assistant", <<"response">>)>>

\* The user puts a file into the upload widget on the screen (line 876).
UploadAudio ==
    /\ st_pc = "idle"
    /\ session_state.upload_counter < MaxUploads
    /\ \E size \in UploadSizes :
          uploaded_audio' = [present |-> TRUE, key |-> session_state.upload_counter,
                             size |-> size]
    /\ handled' = [handled EXCEPT !.upload = 0]
    /\ UNCHANGED last_run
    /\ st_pc' = "rerun"
    /\ UNCHANGED <<session_state, voice_audio_file, js_text_input, clear_clicked,
                   pipelineVars, clientVars, target_sample_rate, textVars, minimalVars>>

\* The recorder puts a recording into the voice widget (line 888).
RecordVoice ==
    /\ st_pc = "idle"
    /\ session_state.voice_upload_counter < MaxUploads
    /\ \E size \in UploadSizes :
          voice_audio_file' = [present |-> TRUE,
                               key |-> session_state.voice_upload_counter,
                               size |-> size]
    /\ handled' = [handled EXCEPT !.voice = 0]
    /\ UNCHANGED last_run
    /\ st_pc' = "rerun"
    /\ UNCHANGED <<session_state, uploaded_audio, js_text_input, clear_clicked,
                   pipelineVars, clientVars, target_sample_rate, textVars, minimalVars>>

\* The page's script writes a new value into the hidden text input
\* (line 873).
SendText ==
    /\ st_pc = "idle"
    /\ Len(session_state.messages) < MaxMessages
    /\ \E t \in TypedTexts :
          /\ t # js_text_input
          /\ js_text_input' = t
    /\ handled' = [handled EXCEPT !.text = 0]
    /\ st_pc' = "rerun"
    /\ UNCHANGED <<session_state, uploaded_audio, voice_audio_file, clear_clicked,
                   last_run, pipelineVars, clientVars, target_sample_rate, textVars, minimalVars>>

\* The user clicks "Clear All Messages" (line 525).
ClickClear ==
    /\ st_pc = "idle"
    /\ clear_clicked' = TRUE
    /\ UNCHANGED last_run
    /\ st_pc' = "rerun"
    /\ UNCHANGED <<session_state, uploaded_audio, voice_audio_file, js_text_input,
                   handled, pipelineVars, clientVars, target_sample_rate, textVars, minimalVars>>

\* Lines 913, 944 and 998: the conditions of the three branches of one run.
TextDue ==
    /\ UserMessage(js_text_input) # <<>>
    /\ session_state.last_sent_text # UserMessage(js_text_input)

VoiceDue ==
    /\ Shown(voice_audio_file, session_state.voice_upload_counter)
    /\ ~session_state.processing_voice_audio
    /\ ~session_state.processing_uploaded_audio

UploadDue ==
    /\ Shown(uploaded_audio, session_state.upload_counter)
    /\ ~session_state.processing_uploaded_audio
    /\ ~session_state.processing_voice_audio

\* One more handling of the file in a widget.
CountHandled(n) == Min(n + 1, MaxHandled)

restVars ==
    <<pipelineVars, clientVars, target_sample_rate, textVars, minimalVars>>

\* A run in which the Clear button is down, lines 525-528.
RunClear ==
    /\ st_pc = "rerun"
    /\ clear_clicked
    /\ session_state' = [session_state EXCEPT !.messages = <<>>,
                                              !.processing_uploaded_audio = FALSE]
    /\ clear_clicked' = FALSE
    /\ last_run' = RunRecord("clear", 0, FALSE, FALSE, 0, 0, 0)
    /\ st_pc' = "rerun"
    /\ UNCHANGED <<uploaded_audio, voice_audio_file, js_text_input, handled,
                   restVars>>

\* The messages after a typed message and the answer of the API, lines
\* 914-934.
AfterText(messages, user_message, responded) ==
    IF responded
    THEN messages \o <<Message("user", user_message),
                       Message("assistant", <<"response">>)>>
    ELSE Append(messages, Message("user", user_message))

\* The typed-message branch without line 937: last_sent_text is not set.
RunTextForgets ==
    /\ st_pc = "rerun"
    /\ ~clear_clicked
    /\ TextDue
    /\ \E responded \in BOOLEAN :
          /\ session_state' =
                [session_state EXCEPT
                    !.messages = AfterText(@, UserMessage(js_text_input), responded)]
          /\ last_run' = RunRecord("text", 0, FALSE, FALSE, 1, 1,
                                   IF responded THEN 2 ELSE 1)
    /\ handled' = [handled EXCEPT !.text = CountHandled(@)]
    /\ st_pc' = "rerun"
    /\ UNCHANGED <<uploaded_audio, voice_audio_file, js_text_input, clear_clicked,
                   restVars>>

\* A run that finds a new typed message, lines 913-939: one user message,
\* one call of call_counseling_api, the answer if there is one, and the
\* message is remembered in last_sent_text.
RunText ==
    /\ st_pc = "rerun"
    /\ ~clear_clicked
    /\ TextDue
    /\ \E responded \in BOOLEAN :
          /\ session_state' =
                [session_state EXCEPT
                    !.messages = AfterText(@, UserMessage(js_text_input), responded),
                    !.last_sent_text = UserMessage(js_text_input)]
          /\ last_run' = RunRecord("text", 0, FALSE, FALSE, 1, 1,
                                   IF responded THEN 2 ELSE 1)
    /\ handled' = [handled EXCEPT !.text = CountHandled(@)]
    /\ st_pc' = "rerun"
    /\ UNCHANGED <<uploaded_audio, voice_audio_file, js_text_input, clear_clicked,
                   restVars>>

\* What a run does with a file within the size limit, lines 955-986 and
\* 1013-1039: the temporary copy, transcribe_audio, and with a
\* transcription one user message and one call of the API.
FileRun(branch, size, messages, transcribed, responded) ==
    RunRecord(branch, size, TRUE, TRUE,
              IF transcribed THEN 1 ELSE 0,
              IF transcribed THEN 1 ELSE 0,
              Len(AfterTranscription(messages, transcribed, responded))
                  - Len(messages))

\* The voice branch without the size check of lines 948-953.
RunVoiceNoSizeCheck ==
    /\ st_pc = "rerun"
    /\ ~clear_clicked
    /\ ~TextDue
    /\ VoiceDue
    /\ \E transcribed \in BOOLEAN, responded \in BOOLEAN :
          /\ session_state' =
                [session_state EXCEPT
                    !.messages = AfterTranscription(@, transcribed, responded),
                    !.processing_voice_audio = FALSE,
                    !.voice_upload_counter = @ + 1]
          /\ last_run' = FileRun("voice", voice_audio_file.size,
                                 session_state.messages, transcribed, responded)
    /\ handled' = [handled EXCEPT !.voice = CountHandled(@)]
    /\ st_pc' = "rerun"
    /\ UNCHANGED <<uploaded_audio, voice_audio_file, js_text_input, clear_clicked,
                   restVars>>

\* A run that finds a voice recording, lines 944-994.  A recording above
\* 50 MB ends the run at line 952, before the temporary file of line 955
\* and before line 993 is reached.
RunVoice ==
    /\ st_pc = "rerun"
    /\ ~clear_clicked
    /\ ~TextDue
    /\ VoiceDue
    /\ IF voice_audio_file.size > ChatMaxSizeMb * 1024 * 1024
       THEN /\ session_state' =
                  [session_state EXCEPT !.processing_voice_audio = FALSE]
            /\ last_run' = RunRecord("voice", voice_audio_file.size,
                                     FALSE, FALSE, 0, 0, 0)
       ELSE \E transcribed \in BOOLEAN, responded \in BOOLEAN :
               /\ session_state' =
                     [session_state EXCEPT
                         !.messages = AfterTranscription(@, transcribed, responded),
                         !.processing_voice_audio = FALSE,
                         !.voice_upload_counter = @ + 1]
               /\ last_run' = FileRun("voice", voice_audio_file.size,
                                      session_state.messages, transcribed,
                                      responded)
    /\ handled' = [handled EXCEPT !.voice = CountHandled(@)]
    /\ st_pc' = "rerun"
    /\ UNCHANGED <<uploaded_audio, voice_audio_file, js_text_input, clear_clicked,
                   restVars>>

\* A run that finds an uploaded file, lines 998-1047.  A file above 50 MB
\* ends the run at line 1010, before the temporary file of line 1013 and
\* before line 1046 is reached.
RunUpload ==
    /\ st_pc = "rerun"
    /\ ~clear_clicked
    /\ ~TextDue
    /\ ~VoiceDue
    /\ UploadDue
    /\ IF uploaded_audio.size > ChatMaxSizeMb * 1024 * 1024
       THEN /\ session_state' =
                  [session_state EXCEPT !.processing_uploaded_audio = FALSE]
            /\ last_run' = RunRecord("upload", uploaded_audio.size,
                                     FALSE, FALSE, 0, 0, 0)
       ELSE \E transcribed \in BOOLEAN, responded \in BOOLEAN :
               /\ session_state' =
                     [session_state EXCEPT
                         !.messages = AfterTranscription(@, transcribed, responded),
                         !.processing_uploaded_audio = FALSE,
                         !.upload_counter = @ + 1]
               /\ last_run' = FileRun("upload", uploaded_audio.size,
                                      session_state.messages, transcribed,
                                      responded)
    /\ handled' = [handled EXCEPT !.upload = CountHandled(@)]
    /\ st_pc' = "rerun"
    /\ UNCHANGED <<uploaded_audio, voice_audio_file, js_text_input, clear_clicked,
                   restVars>>

\* A run that finds nothing to do: it reaches the end of main and the app
\* waits for the next interaction.
RunToEnd ==
    /\ st_pc = "rerun"
    /\ ~clear_clicked
    /\ ~TextDue
    /\ ~VoiceDue
    /\ ~UploadDue
    /\ last_run' = RunRecord("end", 0, FALSE, FALSE, 0, 0, 0)
    /\ st_pc' = "idle"
    /\ UNCHANGED <<session_state, uploaded_audio, voice_audio_file, js_text_input,
                   clear_clicked, handled, restVars>>

NextChat ==
    \/ UploadAudio
    \/ RecordVoice
    \/ SendText
    \/ ClickClear
    \/ RunClear
    \/ RunText
    \/ RunVoice
    \/ RunUpload
    \/ RunToEnd

SpecChat == InitChat /\ [][NextChat]_vars

\* ------------------------------------------------------------------------
\* SpecText: one call of clean_text, add_punctuation, capitalize_sentences
\* or postprocess on a text, and then one more call of the same function on
\* what the first call returned
\* ------------------------------------------------------------------------

\* The longest text tried with every combination of characters.
MaxTextLen == 4

\* The characters texts are built from: two kinds of whitespace, two
\* sentence-ending marks, a small and a capital letter, and a character
\* clean_text removes.
TextChars == {" ", "\n", ".", "?", "a", "B", "#"}

\* Longer texts: a removed character between two spaces, and sentences.
SampleTexts ==
    {<<"a", " ", "#", " ", "b">>,
     <<"a", ".", " ", "b", " ", "?", "B">>}

Texts == UNION {[1..k -> TextChars] : k \in 0..MaxTextLen} \cup SampleTexts

Flags == [add_punctuation : BOOLEAN, capitalize : BOOLEAN]

InitText ==
    /\ entry = "text"
    /\ pc = "text"
    /\ target_sample_rate = DefaultTargetSampleRate
    /\ file = MissingFile
    /\ audio = <<>>
    /\ sample_rate = 0
    /\ valid = "none"
    /\ trace = <<>>
    /\ i = 0
    /\ transcriptions = <<>>
    /\ calls = <<>>
    /\ raw_transcription = <<>>
    /\ ret = NoReturn
    /\ exc = "none"
    /\ arg = <<>>
    /\ last = NoCall
    /\ remembered = NoCall
    /\ ChatIdle
    /\ MinimalIdle
    /\ text_pc = "idle"
    /\ text_op = "none"
    /\ text_flags = [add_punctuation |-> FALSE, capitalize |-> FALSE]
    /\ text_in \in Texts
    /\ text_now = <<>>
    /\ text_steps = <<>>
    /\ text_prev = NoTextCall

\* The function op can be called now: first, or again on its own result.
Callable(op) ==
    \/ text_pc = "idle"
    \/ text_pc = "again" /\ text_op = op

notTextVars ==
    <<pipelineVars, clientVars, target_sample_rate, chatVars, minimalVars>>

\* clean_text(text_in)
CallCleanText ==
    /\ Callable("clean_text")
    /\ text_op' = "clean_text"
    /\ text_now' = CleanText(text_in)
    /\ text_pc' = "returned"
    /\ UNCHANGED <<text_flags, text_in, text_steps, text_prev, notTextVars>>

\* add_punctuation(text_in)
CallAddPunctuation ==
    /\ Callable("add_punctuation")
    /\ text_op' = "add_punctuation"
    /\ text_now' = AddPunctuation(text_in)
    /\ text_pc' = "returned"
    /\ UNCHANGED <<text_flags, text_in, text_steps, text_prev, notTextVars>>

\* capitalize_sentences(text_in)
CallCapitalizeSentences ==
    /\ Callable("capitalize_sentences")
    /\ text_op' = "capitalize_sentences"
    /\ text_now' = CapitalizeSentences(text_in)
    /\ text_pc' = "returned"
    /\ UNCHANGED <<text_flags, text_in, text_steps, text_prev, notTextVars>>

\* postprocess(text_in, add_punctuation, capitalize) is entered.
CallPostprocess ==
    /\ Callable("postprocess")
    /\ text_op' = "postprocess"
    /\ \E f \in Flags :
          /\ (text_pc = "again") => f = text_flags
          /\ text_flags' = f
    /\ text_now' = text_in
    /\ text_steps' = <<>>
    /\ text_pc' = "pp_clean"
    /\ UNCHANGED <<text_in, text_prev, notTextVars>>

\* postprocess, line 183: text = self.clean_text(text)
PostClean ==
    /\ text_pc = "pp_clean"
    /\ text_now' = CleanText(text_now)
    /\ text_steps' = Append(text_steps, "clean_text")
    /\ text_pc' = "pp_punctuation"
    /\ UNCHANGED <<text_op, text_flags, text_in, text_prev, notTextVars>>

\* postprocess, lines 186-187, adding punctuation whatever the flag.
PostAddPunctuationAlways ==
    /\ text_pc = "pp_punctuation"
    /\ text_now' = AddPunctuation(text_now)
    /\ text_steps' = Append(text_steps, "add_punctuation")
    /\ text_pc' = "pp_capitalize"
    /\ UNCHANGED <<text_op, text_flags, text_in, text_prev, notTextVars>>

\* postprocess, lines 186-187: if add_punctuation: ...
PostAddPunctuation ==
    /\ text_pc = "pp_punctuation"
    /\ IF text_flags.add_punctuation
       THEN /\ text_now' = AddPunctuation(text_now)
            /\ text_steps' = Append(text_steps, "add_punctuation")
       ELSE UNCHANGED <<text_now, text_steps>>
    /\ text_pc' = "pp_capitalize"
    /\ UNCHANGED <<text_op, text_flags, text_in, text_prev, notTextVars>>

\* postprocess, lines 190-194: if capitalize: ...; return text
PostCapitalize ==
    /\ text_pc = "pp_capitalize"
    /\ IF text_flags.capitalize
       THEN /\ text_now' = CapitalizeSentences(text_now)
            /\ text_steps' = Append(text_steps, "capitalize_sentences")
       ELSE UNCHANGED <<text_now, text_steps>>
    /\ text_pc' = "returned"
    /\ UNCHANGED <<text_op, text_flags, text_in, text_prev, notTextVars>>

\* The caller passes the result to the same function once more.
FeedBack ==
    /\ text_pc = "returned"
    /\ text_prev = NoTextCall
    /\ text_prev' = [op |-> text_op, text_in |-> text_in, result |-> text_now]
    /\ text_in' = text_now
    /\ text_pc' = "again"
    /\ UNCHANGED <<text_op, text_flags, text_now, text_steps, notTextVars>>

NextText ==
    \/ CallCleanText
    \/ CallAddPunctuation
    \/ CallCapitalizeSentences
    \/ CallPostprocess
    \/ PostClean
    \/ PostAddPunctuation
    \/ PostCapitalize
    \/ FeedBack

SpecText == InitText /\ [][NextText]_vars

\* ------------------------------------------------------------------------
\* SpecMinimal: the transcribe-button handler of the minimal app
\* (streamlit_app_minimal.py, main, lines 103-121) for one uploaded video:
\* the temporary copy, transcribe_video step by step, the results, the
\* finally clause
\* ------------------------------------------------------------------------

\* The uploaded videos: one that decodes to silence, short and longer
\* than 30 seconds ones, and one that does not decode.
UploadedVideos(tsr) ==
    {[exists |-> TRUE, size |-> MaxSizeMb * 1024 * 1024,
      librosa_duration |-> ProbeRaises, sf_duration |-> ProbeRaises,
      decode_ok |-> TRUE, audio |-> a, sr |-> r] :
        a \in {Silence(1), Tone(1), Tone(ChunkSeconds + 1)}, r \in SourceRates(tsr)}
    \cup
    {[exists |-> TRUE, size |-> MaxSizeMb * 1024 * 1024,
      librosa_duration |-> ProbeRaises, sf_duration |-> ProbeRaises,
      decode_ok |-> FALSE, audio |-> <<>>, sr |-> 0]}

\* The button was clicked with a video in the uploader (lines 103-104).
InitMinimal ==
    /\ entry = "transcribe_video"
    /\ pc = "not_called"
    /\ target_sample_rate \in {1, DefaultTargetSampleRate}
    /\ file \in UploadedVideos(target_sample_rate)
    /\ audio = <<>>
    /\ sample_rate = 0
    /\ valid = "none"
    /\ trace = <<>>
    /\ i = 0
    /\ transcriptions = <<>>
    /\ calls = <<>>
    /\ raw_transcription = <<>>
    /\ ret = NoReturn
    /\ exc = "none"
    /\ arg = <<>>
    /\ last = NoCall
    /\ remembered = NoCall
    /\ ChatIdle
    /\ TextIdle
    /\ mn_pc = "clicked"
    /\ temp_exists = FALSE
    /\ mn_exc = "none"
    /\ mn_session = NoResults

minimalOnly == <<inputVars, audio, sample_rate, valid, trace, loopVars, calls,
                 raw_transcription, ret, exc, clientVars, chatVars, textVars>>

\* Lines 106-108: NamedTemporaryFile(delete=False) creates the file, the
\* upload is written into it and it is closed.  These lines stand before
\* the try: when creating the file raises there is no file, when writing
\* raises the file stays, and the exception leaves the handler.
MnWriteTemp ==
    /\ mn_pc = "clicked"
    /\ \E outcome \in {"written", "write_raises", "create_raises"} :
          CASE outcome = "written" ->
                  /\ temp_exists' = TRUE
                  /\ mn_pc' = "transcribe"
                  /\ pc' = "start"
                  /\ UNCHANGED mn_exc
            [] outcome = "write_raises" ->
                  /\ temp_exists' = TRUE
                  /\ mn_exc' = "write"
                  /\ mn_pc' = "finished"
                  /\ UNCHANGED pc
            [] outcome = "create_raises" ->
                  /\ temp_exists' = FALSE
                  /\ mn_exc' = "create"
                  /\ mn_pc' = "finished"
                  /\ UNCHANGED pc
    /\ UNCHANGED <<mn_session, minimalOnly>>

\* Lines 112-116: transcribe_video has returned its pair (it catches every
\* exception itself); the results are stored in st.session_state, which
\* may raise.
MnStore ==
    /\ mn_pc = "transcribe"
    /\ pc = "done"
    /\ ret.kind = "returned"
    /\ \/ /\ mn_session' = [stored |-> TRUE, result |-> ret.text,
                            status |-> ret.status]
          /\ UNCHANGED mn_exc
       \/ /\ mn_exc' = "store"
          /\ UNCHANGED mn_session
    /\ mn_pc' = "finally"
    /\ UNCHANGED <<pc, temp_exists, minimalOnly>>

\* The clean-up written after the try block and not in a finally clause:
\* an exception passes it by.
MnCleanUpAfterTry ==
    /\ mn_pc = "finally"
    /\ temp_exists' = IF mn_exc = "none" THEN FALSE ELSE temp_exists
    /\ mn_pc' = "finished"
    /\ UNCHANGED <<pc, mn_exc, mn_session, minimalOnly>>

\* Lines 118-121: finally: if os.path.exists(temp_file_path):
\* os.unlink(temp_file_path); then the handler ends, or the exception
\* goes on.
MnFinally ==
    /\ mn_pc = "finally"
    /\ temp_exists' = FALSE
    /\ mn_pc' = "finished"
    /\ UNCHANGED <<pc, mn_exc, mn_session, minimalOnly>>

\* The handler's own steps, and between them the steps of transcribe_video,
\* which run from pc = "start", set when the copy is written, to "done".
NextMinimal ==
    \/ MnWriteTemp
    \/ Start
    \/ GetComponents
    \/ PpValidate
    \/ PpLoad
    \/ PpResample
    \/ PpNormalize
    \/ TvTranscribeLong
    \/ TvTranscribeSingle
    \/ LongChunk
    \/ LongReturn
    \/ TvPostprocess
    \/ Except
    \/ MnStore
    \/ MnFinally

SpecMinimal == InitMinimal /\ [][NextMinimal]_vars

\* ------------------------------------------------------------------------
\* Claims about the array methods (SpecAudio)
\* ------------------------------------------------------------------------

InRange(a) == \A k \in 1..Len(a) : -One <= a[k] /\ a[k] <= One

C2_ReturnedRate ==
    (last.op \in {"preprocess_audio_from_array", "preprocess_audio"} /\ ~last.raised)
        => /\ last.ret_sr = target_sample_rate
           /\ last.ret_sr \in Nat \ {0}
           /\ (last.sr # target_sample_rate) =>
                 /\ Len(last.ret_audio) =
                       CeilDiv(Len(last.audio) * target_sample_rate, last.sr)
                 /\ last.ret_audio =
                       NormalizeAudio(
                           LibrosaResample(last.audio, last.sr, target_sample_rate),
                           DefaultTargetDb)

\* A file at 32000 Hz read by the default preprocessor: two samples come
\* back as one, at 16000 Hz.
C2_Witness ==
    /\ last.op = "preprocess_audio"
    /\ ~last.raised
    /\ target_sample_rate = DefaultTargetSampleRate
    /\ last.sr = 2 * DefaultTargetSampleRate
    /\ Len(last.audio) = 2
    /\ Len(last.ret_audio) = 1
    /\ last.ret_sr = DefaultTargetSampleRate

SameCall ==
    /\ remembered.op # "none"
    /\ remembered.op = last.op
    /\ remembered.audio = last.audio
    /\ remembered.sr = last.sr
    /\ remembered.target = last.target
    /\ remembered.db = last.db

\* C10: two calls of resample_audio, normalize_audio,
\* preprocess_audio_from_array or preprocess_audio with equal arguments
\* return equal results, whatever was called in between, and no call
\* changes target_sample_rate or the contents of the caller's array.
C10_Stateless ==
    /\ [](SameCall => remembered = last)
    /\ [][arg' = arg /\ target_sample_rate' = target_sample_rate]_vars

\* normalize_audio called twice on the same loud array, the two calls
\* giving the same clipped result, which is not the input.
C10_Witness ==
    /\ SameCall
    /\ last.op = "normalize_audio"
    /\ last.audio = arg
    /\ last.audio = <<MaxAmp, -1>>
    /\ last.ret_audio # last.audio
    /\ remembered.ret_audio = last.ret_audio

\* ------------------------------------------------------------------------
\* Claims about the entry points (Spec)
\* ------------------------------------------------------------------------

InTrace(step) == \E k \in 1..Len(trace) : trace[k] = step

\* The call is, or has been, inside transcribe_long_audio.
InLong == entry = "transcribe_long_audio" \/ InTrace("transcribe_long_audio")

\* transcribe_long_audio has returned its string.
LongReturned ==
    /\ InLong
    /\ exc = "none"
    /\ pc \in {"tv_postprocess", "done"}

\* The string transcribe_long_audio returned.
LongResult == IF entry = "transcribe_long_audio" THEN ret.text ELSE raw_transcription

ChunkSamples == ChunkSeconds * sample_rate

\* C3: for audio of length L > 0 and sample_rate > 0, transcribe_long_audio
\* passes to the model consecutive chunks of 30 * sample_rate samples that
\* partition the audio: taken in index order from 0, each starting where
\* the one before ended, none empty, only the last one shorter than
\* 30 * sample_rate; once it has returned there are ceil(L / (30 *
\* sample_rate)) of them and every sample lies in exactly one chunk.
C3_ChunksPartition ==
    (InLong /\ Len(audio) > 0 /\ sample_rate > 0) =>
        /\ \A k \in 1..Len(calls) :
              /\ calls[k].start = (k - 1) * ChunkSamples
              /\ calls[k].stop = Min(k * ChunkSamples, Len(audio))
              /\ calls[k].chunk = SubSeq(audio, calls[k].start + 1, calls[k].stop)
              /\ Len(calls[k].chunk) > 0
              /\ Len(calls[k].chunk) <= ChunkSamples
              /\ (k < Len(calls)) => Len(calls[k].chunk) = ChunkSamples
        /\ LongReturned =>
              /\ Len(calls) = CeilDiv(Len(audio), ChunkSamples)
              /\ \A n \in 1..Len(audio) :
                    Cardinality({k \in 1..Len(calls) :
                                    calls[k].start < n /\ n <= calls[k].stop}) = 1

\* 61 samples at one sample per second: chunks of 30, 30 and 1.
C3_Witness ==
    /\ entry = "transcribe_long_audio"
    /\ LongReturned
    /\ sample_rate = 1
    /\ Len(audio) = 2 * ChunkSeconds + 1
    /\ Len(calls) = 3
    /\ Len(calls[3].chunk) = 1

\* The transcriptions of the chunks, stripped, without the blank ones.
RECURSIVE StrippedNonBlank(_)
StrippedNonBlank(cs) ==
    IF cs = <<>> THEN <<>>
    ELSE (IF Strip(Head(cs).text) = <<>> THEN <<>> ELSE <<Strip(Head(cs).text)>>)
         \o StrippedNonBlank(Tail(cs))

\* C4: the string transcribe_long_audio returns is the chunk
\* transcriptions, each stripped of surrounding whitespace, in chunk order,
\* joined by single spaces, the blank ones contributing nothing; it is
\* empty when every chunk transcription is blank.
C4_JoinedTranscriptions ==
    LongReturned =>
        /\ LongResult = Join(StrippedNonBlank(calls), <<" ">>)
        /\ (\A k \in 1..Len(calls) : Strip(calls[k].text) = <<>>) => LongResult = <<>>
        /\ LongResult # <<>> =>
              ~IsSpace(LongResult[1]) /\ ~IsSpace(LongResult[Len(LongResult)])

\* Three chunks transcribed " a\n", " " and "b .a": the result is
\* "a b .a".
C4_Witness ==
    /\ entry = "transcribe_long_audio"
    /\ LongReturned
    /\ Len(calls) = 3
    /\ calls[1].text = <<" ", "a", "\n">>
    /\ calls[2].text = <<" ">>
    /\ calls[3].text = <<"b", " ", ".", "a">>
    /\ ret.text = <<"a", " ", "b", " ", ".", "a">>

IsPrefix(p, q) == Len(p) <= Len(q) /\ SubSeq(q, 1, Len(p)) = p

PreprocessOrder ==
    <<"validate_audio_file", "load_audio", "resample_audio", "normalize_audio">>

\* preprocess_audio has returned to the entry point.
PreprocessReturned ==
    /\ entry \in {"transcribe_video", "transcribe_audio"}
    /\ \/ pc \in {"tv_transcribe", "long_loop", "tv_postprocess",
                  "ta_check", "ta_transcribe", "ta_postprocess"}
       \/ pc \in {"except", "done"} /\ exc = "transcribe"
       \/ pc = "done" /\ exc = "none" /\ ret.status # "not_found"

\* C5: in one call of preprocess_audio the steps start in the order
\* validate_audio_file, load_audio, resample_audio, normalize_audio, each
\* at most once and each after the one before it has returned, and a call
\* that returns has run each exactly once; in transcribe_video the order is
\* preprocess_audio, then the model (one transcribe call or
\* transcribe_long_audio), then postprocess.
C5_StepOrder ==
    /\ (entry \in {"transcribe_video", "transcribe_audio"}) =>
          \E t \in {"transcribe", "transcribe_long_audio"} :
              IsPrefix(trace, <<"get_components">> \o PreprocessOrder
                              \o <<t, "postprocess">>)
    /\ PreprocessReturned => SubSeq(trace, 2, 5) = PreprocessOrder
    /\ (ret.status = "completed") => Len(trace) = 7

\* transcribe_video has returned a transcript on the chunked path.
C5_Witness ==
    /\ entry = "transcribe_video"
    /\ pc = "done"
    /\ ret.status = "completed"
    /\ trace = <<"get_components", "validate_audio_file", "load_audio",
                 "resample_audio", "normalize_audio", "transcribe_long_audio",
                 "postprocess">>
    /\ Len(calls) = 2

\* The file exceeds a stated limit: larger than 100 MB, or with a duration
\* read as longer than 600 seconds.
ExceedsLimits(f) ==
    /\ f.exists
    /\ \/ f.size > MaxSizeMb * 1024 * 1024
       \/ f.librosa_duration.ok /\ f.librosa_duration.seconds > MaxDuration
       \/ ~f.librosa_duration.ok /\ f.sf_duration.ok
          /\ f.sf_duration.seconds > MaxDuration

C7_NeverRaises ==
    (entry \in {"transcribe_video", "transcribe_audio"}) =>
        /\ ret.kind # "raised"
        /\ (pc = "done") => ret.kind = "returned"
        /\ (pc = "done" /\ exc # "none") =>
              ret = IF entry = "transcribe_video" THEN Returned(<<>>, "error")
                                                  ELSE ReturnedNone("Error")
        /\ (ret.status \in {"completed", "Success"}) =>
              /\ exc = "none"
              /\ ~ret.none
              /\ SubSeq(trace, 2, 5) = PreprocessOrder
              /\ InTrace("postprocess")
              /\ calls # <<>>
              /\ \A k \in 1..Len(calls) : calls[k].ok

\* transcribe_audio whose model call raised.
C7_Witness ==
    /\ entry = "transcribe_audio"
    /\ pc = "done"
    /\ exc = "transcribe"
    /\ ret = ReturnedNone("Error")

\* C8: within one call of transcribe_long_audio the model is invoked at
\* most once per chunk, and no chunk is transcribed after one whose
\* transcription raised: the exception ends the call, and transcribe_video
\* then returns "" with the error status, with none of the text of the
\* chunks transcribed before.
C8_NoRetryNoRecovery ==
    InLong =>
        /\ \A j, k \in 1..Len(calls) : (calls[j].start = calls[k].start) => j = k
        /\ \A k \in 1..Len(calls) : (k < Len(calls)) => calls[k].ok
        /\ (exc = "transcribe") =>
              /\ ~calls[Len(calls)].ok
              /\ pc \in {"except", "done"}
              /\ Len(transcriptions) <= Len(calls) - 1
        /\ (exc = "transcribe" /\ pc = "done") =>
              ret = IF entry = "transcribe_video" THEN Returned(<<>>, "error")
                                                  ELSE Raised

\* transcribe_video on the chunked path: the first chunk gave text, the
\* second raised, and the result is empty.
C8_Witness ==
    /\ entry = "transcribe_video"
    /\ InLong
    /\ pc = "done"
    /\ exc = "transcribe"
    /\ Len(calls) = 2
    /\ calls[1].ok
    /\ transcriptions # <<>>
    /\ Len(audio) > 2 * ChunkSamples
    /\ ret.text = <<>>

\* The duration validate_audio_file gets to see: the first probe's, or the
\* second probe's when the first raised.
DurationRead(f) ==
    IF f.librosa_duration.ok THEN f.librosa_duration ELSE f.sf_duration

\* C9: validate_audio_file never raises and returns a boolean: False when
\* the size cannot be read, when it is above max_size_mb, or when a
\* duration was read and is above max_duration; True when the size is
\* within the limit and the duration read is within the limit.
C9_ValidateTotal ==
    (valid # "none") =>
        /\ valid \in {"True", "False"}
        /\ ~file.exists => valid = "False"
        /\ (file.exists /\ file.size > MaxSizeMb * 1024 * 1024) => valid = "False"
        /\ (file.exists /\ DurationRead(file).ok
            /\ DurationRead(file).seconds > MaxDuration) => valid = "False"
        /\ (file.exists /\ file.size <= MaxSizeMb * 1024 * 1024
            /\ DurationRead(file).ok
            /\ DurationRead(file).seconds <= MaxDuration) => valid = "True"

\* A file of exactly 100 MB and exactly 600 seconds is valid.
C9_Witness ==
    /\ valid = "True"
    /\ file.size = MaxSizeMb * 1024 * 1024
    /\ file.librosa_duration = [ok |-> TRUE, seconds |-> MaxDuration]

\* The model step of transcribe_video is over and nothing has raised.
TvTranscribed ==
    /\ entry = "transcribe_video"
    /\ exc = "none"
    /\ \/ pc = "tv_postprocess"
       \/ pc = "done" /\ ret.status = "completed"

\* C11: transcribe_video takes the chunked path (transcribe_long_audio)
\* exactly when the preprocessed audio has more than 30 * sample_rate
\* samples; audio of 30 seconds or less goes to the model in one transcribe
\* call on the whole array; on both paths, once the model step is over,
\* the calls made are slices of the preprocessed audio and every sample of
\* it lies in exactly one of them.
C11_ChunkedIffLonger ==
    (entry = "transcribe_video") =>
        /\ InTrace("transcribe_long_audio") => Len(audio) > ChunkSeconds * sample_rate
        /\ InTrace("transcribe") =>
              /\ Len(audio) <= ChunkSeconds * sample_rate
              /\ Len(calls) = 1
              /\ calls[1].start = 0
              /\ calls[1].stop = Len(audio)
              /\ calls[1].chunk = audio
        /\ TvTranscribed =>
              /\ InTrace("transcribe_long_audio") <=> Len(audio) > ChunkSeconds * sample_rate
              /\ InTrace("transcribe") <=> Len(audio) <= ChunkSeconds * sample_rate
              /\ \A k \in 1..Len(calls) :
                    calls[k].chunk = SubSeq(audio, calls[k].start + 1, calls[k].stop)
              /\ \A n \in 1..Len(audio) :
                    Cardinality({k \in 1..Len(calls) :
                                    calls[k].start < n /\ n <= calls[k].stop}) = 1

\* Audio of exactly 30 seconds (30 samples at one sample per second) was
\* transcribed in one call.
C11_Witness ==
    /\ TvTranscribed
    /\ pc = "done"
    /\ sample_rate = 1
    /\ Len(audio) = ChunkSeconds
    /\ InTrace("transcribe")
    /\ Len(calls) = 1
    /\ Len(calls[1].chunk) = ChunkSeconds

\* ------------------------------------------------------------------------
\* Claims about the chat app (SpecChat)
\* ------------------------------------------------------------------------

\* C12 as stated: once a file has been handled by the upload or the voice
\* branch, whatever the outcome, the counter of its uploader has been
\* incremented before the rerun: the run that is due does not see the file
\* again, and no file is handled twice.
C12_HandledOnce ==
    /\ handled.upload <= 1
    /\ handled.voice <= 1
    /\ (st_pc = "rerun" /\ handled.upload > 0) =>
          ~Shown(uploaded_audio, session_state.upload_counter)
    /\ (st_pc = "rerun" /\ handled.voice > 0) =>
          ~Shown(voice_audio_file, session_state.voice_upload_counter)

\* ------------------------------------------------------------------------
\* Claims about the text functions (SpecText)
\* ------------------------------------------------------------------------

\* The function op has returned text_now for the argument text_in.
TextReturned(op) == text_op = op /\ text_pc = "returned"

BothFlags == text_flags.add_punctuation /\ text_flags.capitalize

\* C13 as stated: the string clean_text returns has no leading and no
\* trailing whitespace and no two consecutive whitespace characters, for
\* every input.
C13_CleanNoExtraSpace ==
    TextReturned("clean_text") =>
        /\ text_now # <<>> =>
              ~IsSpace(text_now[1]) /\ ~IsSpace(text_now[Len(text_now)])
        /\ \A k \in 1..(Len(text_now) - 1) :
              ~(IsSpace(text_now[k]) /\ IsSpace(text_now[k + 1]))

IsLetter(c) == c \in Lower \cup Upper

\* The first position after k that holds no whitespace, or 0.
NextNonSpace(s, k) ==
    LET after == {j \in (k + 1)..Len(s) : ~IsSpace(s[j])}
    IN  IF after = {} THEN 0 ELSE CHOOSE j \in after : \A m \in after : j <= m

\* C14 as stated: in the text postprocess returns with both flags True,
\* every sentence-ending mark that more text follows is separated from the
\* following letter by exactly one space, and no whitespace stands before
\* a sentence-ending mark.
C14_PunctuationSpacing ==
    (TextReturned("postprocess") /\ BothFlags) =>
        \A k \in 1..Len(text_now) :
            (text_now[k] \in Enders) =>
                /\ (k > 1) => ~IsSpace(text_now[k - 1])
                /\ LET j == NextNonSpace(text_now, k)
                   IN  (j # 0 /\ IsLetter(text_now[j])) =>
                          (j = k + 2 /\ text_now[k + 1] = " ")

CountEnders(s) == Cardinality({k \in 1..Len(s) : s[k] \in Enders})

\* C15: add_punctuation returns the empty string for the empty input, and
\* for every other input a text that ends with one of . ! ?: the input's
\* own last mark when it ends with one, and one appended period, and no
\* other mark, when it does not.
C15_EndsWithTerminator ==
    TextReturned("add_punctuation") =>
        IF text_in = <<>> THEN text_now = <<>>
        ELSE /\ text_now # <<>>
             /\ text_now[Len(text_now)] \in Enders
             /\ IF text_in[Len(text_in)] \in Enders
                THEN /\ text_now[Len(text_now)] = text_in[Len(text_in)]
                     /\ CountEnders(text_now) = CountEnders(text_in)
                ELSE /\ text_now[Len(text_now)] = "."
                     /\ CountEnders(text_now) = CountEnders(text_in) + 1

\* "a ?B" ends with no mark: a period is appended, and the patterns give
\* "a? B.".
C15_Witness ==
    /\ TextReturned("add_punctuation")
    /\ text_in = <<"a", " ", "?", "B">>
    /\ text_now = <<"a", "?", " ", "B", ".">>

\* The whitespace at position k of t lies at a sentence boundary: a run of
\* whitespace through k reaches the start or the end of the text, or a
\* sentence-ending mark.
BoundarySpace(t, k) ==
    /\ IsSpace(t[k])
    /\ \E lo \in 1..k, hi \in k..Len(t) :
          /\ \A m \in lo..hi : IsSpace(t[m])
          /\ \/ lo = 1
             \/ hi = Len(t)
             \/ t[lo - 1] \in Enders
             \/ t[hi + 1] \in Enders

\* The characters of t from position k on, without the whitespace at
\* sentence boundaries.
RECURSIVE WithoutBoundarySpace(_, _)
WithoutBoundarySpace(t, k) ==
    IF k > Len(t) THEN <<>>
    ELSE (IF BoundarySpace(t, k) THEN <<>> ELSE <<t[k]>>)
         \o WithoutBoundarySpace(t, k + 1)

\* Position j of r starts a sentence: it holds no mark and it is the first
\* position, or the one after a mark.
SentenceStart(r, j) ==
    /\ r[j] \notin Enders
    /\ j = 1 \/ r[j - 1] \in Enders

\* C16: in the text capitalize_sentences returns, the first character of
\* every sentence (at the start of the string and after each run of . ! ?)
\* is the upper-case form of the input's and equals its own upper-case
\* form; apart from the whitespace at sentence boundaries, which is
\* dropped, every other character is the input's, in the same order.
C16_SentencesCapitalized ==
    TextReturned("capitalize_sentences") =>
        LET e == WithoutBoundarySpace(text_in, 1)
        IN  /\ Len(text_now) = Len(e)
            /\ \A j \in 1..Len(text_now) :
                  IF SentenceStart(text_now, j)
                  THEN /\ text_now[j] = ToUpper(e[j])
                       /\ ToUpper(text_now[j]) = text_now[j]
                  ELSE text_now[j] = e[j]

\* "a. b ?B": three sentences; the second one's first letter is raised
\* and the whitespace around it is dropped.
C16_Witness ==
    /\ TextReturned("capitalize_sentences")
    /\ text_in = <<"a", ".", " ", "b", " ", "?", "B">>
    /\ text_now = <<"A", ".", "B", "?", "B">>

\* The functions postprocess applies for the flags f, in order.
StepsFor(f) ==
    <<"clean_text">>
    \o (IF f.add_punctuation THEN <<"add_punctuation">> ELSE <<>>)
    \o (IF f.capitalize THEN <<"capitalize_sentences">> ELSE <<>>)

\* The text after applying the functions named in steps, in order.
RECURSIVE ApplySteps(_, _)
ApplySteps(t, steps) ==
    IF steps = <<>> THEN t
    ELSE ApplySteps(CASE Head(steps) = "clean_text" -> CleanText(t)
                      [] Head(steps) = "add_punctuation" -> AddPunctuation(t)
                      [] Head(steps) = "capitalize_sentences" -> CapitalizeSentences(t),
                    Tail(steps))

\* C17: postprocess applies clean_text first, add_punctuation next exactly
\* when add_punctuation is True, capitalize_sentences last exactly when
\* capitalize is True, each to the result of the one before; with both
\* flags False its result is clean_text of the input.
C17_PostprocessOrder ==
    (text_op = "postprocess" /\ text_pc # "again") =>
        /\ IsPrefix(text_steps, StepsFor(text_flags))
        /\ text_now = ApplySteps(text_in, text_steps)
        /\ (text_pc = "returned") =>
              /\ text_steps = StepsFor(text_flags)
              /\ text_now = Postprocess(text_in, text_flags.add_punctuation,
                                        text_flags.capitalize)
              /\ (~text_flags.add_punctuation /\ ~text_flags.capitalize) =>
                    text_now = CleanText(text_in)

\* postprocess(" a#", add_punctuation=False, capitalize=True): clean_text
\* and capitalize_sentences only, and no period.
C17_Witness ==
    /\ TextReturned("postprocess")
    /\ text_flags = [add_punctuation |-> FALSE, capitalize |-> TRUE]
    /\ text_steps = <<"clean_text", "capitalize_sentences">>
    /\ text_in = <<" ", "a", "#">>
    /\ text_now = <<"A">>

\* C18 as stated: clean_text applied to its own output returns it
\* unchanged, and so does postprocess with both flags True.
C18_Idempotent ==
    (text_pc = "returned" /\ text_prev # NoTextCall
     /\ (text_op = "clean_text" \/ (text_op = "postprocess" /\ BothFlags)))
        => text_now = text_prev.result

\* ------------------------------------------------------------------------
\* More claims about the array methods (SpecAudio) and the entry points
\* (Spec)
\* ------------------------------------------------------------------------

\* r is the sample s after the gain t * sqrt(n / ss) and the clip, on the
\* grid: it has the sign of s; below full scale its magnitude is the
\* gained magnitude rounded down, and it is at full scale exactly when the
\* gained magnitude is at or above full scale.
GainedAndClipped(r, s, t, n, ss) ==
    LET m   == r * Sgn(s)
        lhs == s * s * t.num * t.num * n
        den == t.den * t.den * ss
    IN  /\ 0 <= m
        /\ m <= One
        /\ m * m * den <= lhs
        /\ (m < One) => lhs < (m + 1) * (m + 1) * den

SizeWithinLimit(f) == f.exists /\ f.size <= MaxSizeMb * 1024 * 1024

\* What validate_audio_file returns for a duration that was read.
DurationVerdict(probe) == IF probe.seconds > MaxDuration THEN "False" ELSE "True"

\* C20: for a file whose size is within the limit, validate_audio_file
\* returns True when both duration probes raise; the soundfile probe counts
\* only when the librosa probe has raised (what librosa read decides,
\* whatever soundfile would read); and a duration above the limit read by
\* the probe that counts gives False.
C20_DurationProbes ==
    (valid # "none" /\ SizeWithinLimit(file)) =>
        /\ (~file.librosa_duration.ok /\ ~file.sf_duration.ok) => valid = "True"
        /\ file.librosa_duration.ok => valid = DurationVerdict(file.librosa_duration)
        /\ (~file.librosa_duration.ok /\ file.sf_duration.ok) =>
              valid = DurationVerdict(file.sf_duration)

\* Neither probe could read the duration of a file of exactly 100 MB, and
\* the file is valid.
C20_Witness ==
    /\ valid = "True"
    /\ file.size = MaxSizeMb * 1024 * 1024
    /\ ~file.librosa_duration.ok
    /\ ~file.sf_duration.ok

\* C21: when the path given to transcribe_video does not exist, it returns
\* the empty transcript with the not-found status at once: get_components
\* is not called, and so no preprocessing step, no model call and no
\* postprocessing takes place; the not-found status is returned for no
\* other reason.
C21_NotFoundFirst ==
    /\ (entry = "transcribe_video" /\ ~file.exists /\ pc # "start") =>
          /\ pc = "done"
          /\ ret = Returned(<<>>, "not_found")
          /\ trace = <<>>
          /\ calls = <<>>
          /\ valid = "none"
          /\ exc = "none"
    /\ (ret.status = "not_found") => (entry = "transcribe_video" /\ ~file.exists)

\* transcribe_video has returned for a missing file.
C21_Witness ==
    /\ entry = "transcribe_video"
    /\ file = MissingFile
    /\ pc = "done"
    /\ ret = Returned(<<>>, "not_found")
    /\ trace = <<>>

\* transcribe_audio has returned.
TaReturned == entry = "transcribe_audio" /\ pc = "done" /\ ret.kind = "returned"

\* The call had no usable text to give: the audio was empty, the model's
\* output was blank, or nothing was left of it after postprocessing.
NoUsableText ==
    \/ Len(audio) = 0
    \/ calls # <<>> /\ Strip(calls[Len(calls)].text) = <<>>
    \/ calls # <<>> /\ Postprocess(calls[Len(calls)].text, TRUE, TRUE) = <<>>

\* C25: when transcribe_audio returns "Success" its text is not empty, and
\* a call with no usable text returns None with a failure message.
C25_SuccessHasText ==
    TaReturned =>
        /\ (ret.status = "Success") => (~ret.none /\ ret.text # <<>>)
        /\ NoUsableText => (ret.none /\ ret.status # "Success")

\* ------------------------------------------------------------------------
\* Claims about the runs of the chat app (SpecChat)
\* ------------------------------------------------------------------------

\* The last run took the branch of a voice recording or of an uploaded file.
FileBranch == last_run.branch \in {"voice", "upload"}

TooLarge(size) == size > ChatMaxSizeMb * 1024 * 1024

\* C23: a voice recording or uploaded file above 50 MB is not written to a
\* temporary file, not transcribed, and appends no message to the chat
\* history (a file of at most 50 MB is written and transcribed); after the
\* run neither processing flag is set.
C23_TooLargeUntouched ==
    /\ (FileBranch /\ TooLarge(last_run.size)) =>
          /\ ~last_run.temp_written
          /\ ~last_run.transcribe_called
          /\ last_run.api_calls = 0
          /\ last_run.appended = 0
    /\ (FileBranch /\ ~TooLarge(last_run.size)) =>
          /\ last_run.temp_written
          /\ last_run.transcribe_called
    /\ ~session_state.processing_voice_audio
    /\ ~session_state.processing_uploaded_audio

\* A run met a voice recording of 50 MB and one byte and left it alone.
C23_Witness ==
    /\ last_run.branch = "voice"
    /\ last_run.size = ChatMaxSizeMb * 1024 * 1024 + 1
    /\ ~last_run.temp_written
    /\ ~session_state.processing_voice_audio

\* C24: the message held by the hidden text input is processed at most
\* once, whatever reruns, uploads and recordings follow its submission; the
\* run that processes it appends one user message and calls the counseling
\* API once, and from then on the message is the one remembered in
\* last_sent_text.
C24_TypedOnce ==
    /\ handled.text <= 1
    /\ (last_run.branch = "text") =>
          /\ last_run.user_messages = 1
          /\ last_run.api_calls = 1
    /\ (handled.text = 1) =>
          session_state.last_sent_text = UserMessage(js_text_input)

\* The message was processed, and the run of an upload or a recording that
\* came after it left it alone while the input still held it.
C24_Witness ==
    /\ handled.text = 1
    /\ FileBranch
    /\ last_run.transcribe_called
    /\ UserMessage(js_text_input) # <<>>
    /\ ~TextDue

\* ------------------------------------------------------------------------
\* Claims about the minimal app (SpecMinimal)
\* ------------------------------------------------------------------------

\* The temporary copy was written in full.
TempWritten ==
    \/ mn_pc \in {"transcribe", "finally"}
    \/ mn_pc = "finished" /\ mn_exc \notin {"write", "create"}

\* C22: once the temporary copy of the upload has been written, it is on
\* the disk while transcribe_video runs and gone when the handler has
\* finished: after a transcript, after an error status, and when an
\* exception escaped while the results were stored.
C22_TempFileDeleted ==
    /\ (TempWritten /\ mn_pc = "finished") => ~temp_exists
    /\ (mn_pc = "transcribe") => temp_exists
    /\ (mn_pc = "finished" /\ mn_exc = "none") =>
          /\ mn_session.stored
          /\ mn_session.status \in {"completed", "error"}

\* The transcript was there, storing it raised, and the file is gone.
C22_Witness ==
    /\ mn_pc = "finished"
    /\ mn_exc = "store"
    /\ ret.status = "completed"
    /\ ret.text # <<>>
    /\ ~temp_exists

=============================================================================
